---- MODULE Spec2Model ----
(***************************************************************************)
(* A model of img2prime.py: the primality oracle (probably_prime over      *)
(* miller_rabin), the skipahead wrapper, the sequential search             *)
(* find_next_prime and the digit-morphing search find_prime_by_morphing.   *)
(*                                                                         *)
(* Each component is driven by its own specification over the shared       *)
(* variables; a component that a specification does not drive stays idle.  *)
(***************************************************************************)
EXTENDS Integers, Sequences, FiniteSets, TLC

VARIABLES
    \* ---- probably_prime / miller_rabin
    entry,        \* which function the oracle run entered: "probably_prime" | "miller_rabin" | "none"
    pp_pc,        \* probably_prime: "idle" | "call" | "mr" | "done"
    pp_number,    \* probably_prime's argument `number`
    pp_ret,       \* probably_prime's return value ("none" before it returns)
    mr_pc,        \* miller_rabin: "idle" | "round" | "done"
    n, d, r,      \* miller_rabin's locals after the decomposition loop
    mr_i,         \* miller_rabin's round counter `i`
    mr_sq,        \* squarings performed by the inner loop of the last round
    mr_ret,       \* miller_rabin's return value ("none" before it returns)
    \* ---- skipahead
    sk_pc,        \* "init" before skipahead(test_function, args) ran, "wrapped" after
    args_skip,    \* args.skip
    args_quiet,   \* args.quiet, the shared flag
    quiet0,       \* args.quiet as it was before skipahead was applied
    skip,         \* closure variable `skip`
    quiet,        \* closure variable `quiet`
    skipped,      \* closure variable `skipped`
    calls,        \* number of calls of the wrapper f made so far
    inner_calls,  \* number of invocations of the wrapped test_function
    sk_arg,       \* argument of the last call of f (-1 before the first)
    sk_ret,       \* value returned by the last call of f ("none" before the first)
    inner_arg,    \* argument of the last invocation of test_function (-1 if none)
    inner_ret,    \* value returned by the last invocation of test_function
    sk_out,       \* number of progress prints made by f
    \* ---- find_next_prime
    fnp_pc,       \* "idle" | "loop" (at the while condition) | "wait" (inside test_function) | "done"
    fnp_test,     \* the test_function: "any" (an arbitrary function) | "probably_prime" | "none"
    fnp_quiet,    \* args.quiet
    fnp_start,    \* the argument `number` as passed by the caller
    fnp_number,   \* local `number`
    fnp_i,        \* local `i`
    fnp_log,      \* the invocations of test_function so far: <<[cand, ok], ...>>
    fnp_out,      \* number of "checked {} candidates" lines printed
    fnp_ret,      \* the returned value (-1 before the return)
    \* ---- find_prime_by_morphing
    m_pc,         \* "idle" | "run" | "done"
    m_start,      \* the argument `number`
    args_morph,   \* args.morph: a list of words MORP..., each a sequence of digits
    morphs,       \* the dictionary `morphs`
    trials,       \* the counter `trials`
    stack,        \* the active calls of find_prime_by_morphing_recursive, outermost first:
                  \* [digits, depth (recursion_depth), index, mi (morphs of
                  \* digits[-index] already tried), prev (position of the candidate
                  \* this call tested last, 0 if none)]
    m_last,       \* the last invocation of test_function (NoTest before the first):
                  \* [level, index, pos, prev, mi, base, morphed, cand, ok]
    m_first_ok,   \* the first candidate test_function accepted (-1 if none yet)
    m_again,      \* test_function was invoked again after it had accepted a candidate
    m_ret,        \* the returned value: NotReturned, ReturnedNone or Returned(v)
    \* ---- linear_map
    lm_pc,        \* linear_map: "idle" | "loop" | "IndexError" | "done"
    lm_inputs,    \* len(inputs)
    lm_outputs,   \* len(outputs)
    lm_index,     \* the loop variable `index` of the next iteration
    mapping       \* mapping[index + 1] is the position in outputs given to inputs[index]

oracleVars == <<entry, pp_pc, pp_number, pp_ret, mr_pc, n, d, r, mr_i, mr_sq, mr_ret>>
vars == <<entry, pp_pc, pp_number, pp_ret, mr_pc, n, d, r, mr_i, mr_sq, mr_ret,
          sk_pc, args_skip, args_quiet, quiet0, skip, quiet, skipped, calls,
          inner_calls, sk_arg, sk_ret, inner_arg, inner_ret, sk_out,
          fnp_pc, fnp_test, fnp_quiet, fnp_start, fnp_number, fnp_i, fnp_log,
          fnp_out, fnp_ret,
          m_pc, m_start, args_morph, morphs, trials, stack, m_last,
          m_first_ok, m_again, m_ret,
          lm_pc, lm_inputs, lm_outputs, lm_index, mapping>>
skipVars == <<sk_pc, args_skip, args_quiet, quiet0, skip, quiet, skipped, calls,
              inner_calls, sk_arg, sk_ret, inner_arg, inner_ret, sk_out>>
fnpVars == <<fnp_pc, fnp_test, fnp_quiet, fnp_start, fnp_number, fnp_i, fnp_log,
             fnp_out, fnp_ret>>
morphVars == <<m_pc, m_start, args_morph, morphs, trials, stack, m_last,
               m_first_ok, m_again, m_ret>>
lmVars == <<lm_pc, lm_inputs, lm_outputs, lm_index, mapping>>

-----------------------------------------------------------------------------
(* Bounds of the model.                                                    *)

\* probably_prime is applied to every number in 2..MaxNumber
MaxNumber == 1100
\* miller_rabin is applied directly to every odd number in 5..MaxMRN
MaxMRN == 61
\* args.skip ranges over 0..MaxSkip
MaxSkip == 3
\* at most MaxCalls calls of a skipahead wrapper are made
MaxCalls == 6
\* arguments handed to a skipahead wrapper range over 0..MaxArg
MaxArg == 2
\* find_next_prime starts from every odd number in 1..MaxFnpStart
MaxFnpStart == 15
\* an arbitrary test function is invoked at most MaxTests times by find_next_prime
MaxTests == 5
\* the morphing search starts from numbers of at most MaxLen digits
MaxLen == 3

\* replacement digits of the morph table range over 0..MaxMorphDigit
MaxMorphDigit == 2
\* linear_map is applied to 1..MaxInputs inputs and 1..MaxInputs outputs
MaxInputs == 8

\* the digits of the start numbers, which are also the source digits of the words
StartDigits == {0, 1}
\* replacement digits of the morph table
MorphDigits == 0..MaxMorphDigit
\* a word of args.morph lists 0, 1 or 2 replacement digits
ReplacementLists ==
    {<<>>} \cup {<<x>> : x \in MorphDigits}
           \cup {<<x, y>> : x \in MorphDigits, y \in MorphDigits}
\* the words MORP...: a source digit followed by its replacement digits
MorphWords == {<<key>> \o reps : key \in StartDigits, reps \in ReplacementLists}
\* the values of args.morph: at most one word per source digit, by increasing
\* source digit
MorphArgs ==
    {<<>>} \cup {<<w>> : w \in MorphWords}
           \cup {<<v, w>> : v \in {x \in MorphWords : x[1] = 0},
                           w \in {x \in MorphWords : x[1] = 1}}

-----------------------------------------------------------------------------
(* Program constants.                                                      *)

\* default value of probably_prime's parameter `primes`
primes ==
    <<2, 3, 5, 7, 11, 13, 17, 19, 23, 29, 31, 37, 41, 43, 47, 53, 59, 61,
      67, 71, 73, 79, 83, 89, 97, 101, 103, 107, 109, 113, 127, 131, 137,
      139, 149, 151, 157, 163, 167, 173, 179, 181, 191, 193, 197, 199, 211,
      223, 227, 229, 233, 239, 241, 251, 257, 263, 269, 271, 277, 281, 283,
      293, 307, 311, 313, 317, 331, 337, 347, 349, 353, 359, 367, 373, 379,
      383, 389, 397, 401, 409, 419, 421, 431, 433, 439, 443, 449, 457, 461,
      463, 467, 479, 487, 491, 499, 503, 509, 521, 523, 541, 547, 557, 563,
      569, 571, 577, 587, 593, 599, 601, 607, 613, 617, 619, 631, 641, 643,
      647, 653, 659, 661, 673, 677, 683, 691, 701, 709, 719, 727, 733, 739,
      743, 751, 757, 761, 769, 773, 787, 797, 809, 811, 821, 823, 827, 829,
      839, 853, 857, 859, 863, 877, 881, 883, 887, 907, 911, 919, 929, 937,
      941, 947, 953, 967, 971, 977, 983, 991, 997>>

\* default value of miller_rabin's parameter `k`
k == 10

\* the skipping phase prints progress when skipped % 1000 == 0
ProgressEvery == 1000

-----------------------------------------------------------------------------
(* Arithmetic used to state the claims (not part of the program).          *)

IsPrime(m) == m >= 2 /\ \A q \in 2..(m - 1) : q * q > m \/ m % q # 0

Max(a, b) == IF a >= b THEN a ELSE b

-----------------------------------------------------------------------------
(* miller_rabin                                                            *)

\* pow(a, e, m), by square and multiply
RECURSIVE pow(_, _, _)
pow(a, e, m) ==
    IF e = 0 THEN 1 % m
    ELSE IF e % 2 = 0
         THEN LET h == pow(a, e \div 2, m) IN (h * h) % m
         ELSE (a * pow(a, e - 1, m)) % m

\* the loop `while d % 2 == 0: d //= 2; r *= 2`, from the values dd, rr
RECURSIVE DecompLoop(_, _)
DecompLoop(dd, rr) ==
    IF dd % 2 = 0 THEN DecompLoop(dd \div 2, rr * 2) ELSE [d |-> dd, r |-> rr]

\* miller_rabin's `r = 1; d = (n-1) // 2` followed by the decomposition loop
Decompose(m) == DecompLoop((m - 1) \div 2, 1)

\* the loop `for j in range(r-1)` from iteration j with value x: the number of
\* squarings it performs before the loop is left (by `return False` on x == 1, or
\* by exhausting the range; `continue` on x == n-1 goes on with the same loop)
RECURSIVE SquaringLoop(_, _, _, _)
SquaringLoop(x, j, rr, m) ==
    IF j >= rr - 1 THEN 0
    ELSE LET x2 == (x * x) % m IN
         IF x2 = 1 THEN 1
         ELSE 1 + SquaringLoop(x2, j + 1, rr, m)

\* one iteration of `for i in range(k)` with base a: "continue" when the round is
\* inconclusive, otherwise the function returns False (both exits of the inner
\* loop lead to a `return False`)
RoundVerdict(a, dd, rr, m) ==
    LET x == pow(a, dd, m) IN
    IF x = 1 \/ x = m - 1 THEN "continue" ELSE "return False"

RoundSquarings(a, dd, rr, m) ==
    LET x == pow(a, dd, m) IN
    IF x = 1 \/ x = m - 1 THEN 0 ELSE SquaringLoop(x, 0, rr, m)

\* entering miller_rabin(m): the state after the decomposition loop
MillerRabinEnter(m) ==
    /\ n' = m
    /\ d' = Decompose(m).d
    /\ r' = Decompose(m).r
    /\ mr_i' = 0
    /\ mr_sq' = 0
    /\ mr_ret' = "none"
    /\ mr_pc' = "round"

\* one round: a = random.randint(2, n - 2), then the round's body
MillerRabinRound ==
    /\ mr_pc = "round"
    /\ mr_i < k
    /\ \E a \in 2..(n - 2) :
          /\ mr_sq' = RoundSquarings(a, d, r, n)
          /\ IF RoundVerdict(a, d, r, n) = "continue"
             THEN /\ mr_i' = mr_i + 1
                  /\ UNCHANGED <<mr_pc, mr_ret>>
             ELSE /\ mr_ret' = FALSE
                  /\ mr_pc' = "done"
                  /\ UNCHANGED mr_i
    /\ UNCHANGED <<n, d, r>>

\* `return True` once the k rounds are over
MillerRabinReturnTrue ==
    /\ mr_pc = "round"
    /\ mr_i >= k
    /\ mr_ret' = TRUE
    /\ mr_pc' = "done"
    /\ UNCHANGED <<n, d, r, mr_i, mr_sq>>

-----------------------------------------------------------------------------
(* probably_prime                                                          *)

\* the products p * q of two primes of the default list
SmallPrimeProducts ==
    {primes[i] * primes[j] : i \in 1..Len(primes), j \in 1..Len(primes)}

\* a trial-division loop that leaves out the first prime of the list
HasSmallFactorSkipsFirst(number) == \E idx \in 2..Len(primes) : number % primes[idx] = 0

\* the trial-division loop finds a prime of the list dividing number
HasSmallFactor(number) == \E idx \in 1..Len(primes) : number % primes[idx] = 0

\* probably_prime(number) up to its return False or its call of miller_rabin
ProbablyPrimeCall ==
    /\ pp_pc = "call"
    /\ IF HasSmallFactor(pp_number)
       THEN /\ pp_ret' = FALSE
            /\ pp_pc' = "done"
            /\ UNCHANGED <<mr_pc, n, d, r, mr_i, mr_sq, mr_ret>>
       ELSE /\ MillerRabinEnter(pp_number)
            /\ pp_pc' = "mr"
            /\ UNCHANGED pp_ret
    /\ UNCHANGED pp_number

\* `return miller_rabin(number)`
ProbablyPrimeReturn ==
    /\ pp_pc = "mr"
    /\ mr_pc = "done"
    /\ pp_ret' = mr_ret
    /\ pp_pc' = "done"
    /\ UNCHANGED <<pp_number, mr_pc, n, d, r, mr_i, mr_sq, mr_ret>>

OracleIdle ==
    /\ entry = "none"
    /\ pp_pc = "idle" /\ pp_number = 0 /\ pp_ret = "none"
    /\ mr_pc = "idle" /\ n = 0 /\ d = 0 /\ r = 0
    /\ mr_i = 0 /\ mr_sq = 0 /\ mr_ret = "none"

-----------------------------------------------------------------------------
(* skipahead                                                               *)

\* skipahead(test_function, args): the body up to `return f`
SkipAhead ==
    /\ sk_pc = "init"
    /\ skip' = args_skip
    /\ quiet' = args_quiet
    /\ args_quiet' = TRUE
    /\ skipped' = 0
    /\ sk_pc' = "wrapped"
    /\ UNCHANGED <<args_skip, quiet0, calls, inner_calls, sk_arg, sk_ret,
                   inner_arg, inner_ret, sk_out>>

\* a guard that stops skipping one call early
SkippingOffByOne == skipped + 1 < skip

\* the condition `skipped < skip` of f
Skipping == skipped < skip

\* the branch `if skipped < skip` of f(number)
FSkip(number) ==
    /\ Skipping
    /\ sk_out' = IF ~quiet /\ skipped % ProgressEvery = 0 THEN sk_out + 1 ELSE sk_out
    /\ skipped' = skipped + 1
    /\ args_quiet' = IF skipped + 1 = skip THEN quiet ELSE args_quiet
    /\ sk_ret' = FALSE
    /\ UNCHANGED <<inner_calls, inner_arg, inner_ret>>

\* a delegating branch that falls back into the skipping phase
FDelegateReenter(number) ==
    /\ ~Skipping
    /\ \E verdict \in BOOLEAN :
          /\ inner_ret' = verdict
          /\ sk_ret' = verdict
    /\ inner_calls' = inner_calls + 1
    /\ inner_arg' = number
    /\ skipped' = 0
    /\ UNCHANGED <<args_quiet, sk_out>>

\* the branch `else: return test_function(number)` of f(number); the wrapped
\* test function is any function: its verdict is chosen freely
FDelegate(number) ==
    /\ ~Skipping
    /\ \E verdict \in BOOLEAN :
          /\ inner_ret' = verdict
          /\ sk_ret' = verdict
    /\ inner_calls' = inner_calls + 1
    /\ inner_arg' = number
    /\ UNCHANGED <<skipped, args_quiet, sk_out>>

\* one call f(number) of the wrapper
F ==
    /\ sk_pc = "wrapped"
    /\ calls < MaxCalls
    /\ \E number \in 0..MaxArg :
          /\ sk_arg' = number
          /\ (FSkip(number) \/ FDelegate(number))
    /\ calls' = calls + 1
    /\ UNCHANGED <<sk_pc, args_skip, quiet0, skip, quiet>>

SkipIdle ==
    /\ sk_pc = "idle"
    /\ args_skip = 0 /\ args_quiet = FALSE /\ quiet0 = FALSE
    /\ skip = 0 /\ quiet = FALSE /\ skipped = 0
    /\ calls = 0 /\ inner_calls = 0
    /\ sk_arg = -1 /\ sk_ret = "none" /\ inner_arg = -1 /\ inner_ret = "none"
    /\ sk_out = 0

-----------------------------------------------------------------------------
(* find_next_prime                                                         *)

\* a loop that steps to the next integer instead of the next odd one
FnpWhileStepOne(verdict) ==
    /\ fnp_log' = Append(fnp_log, [cand |-> fnp_number, ok |-> verdict])
    /\ IF verdict
       THEN /\ fnp_ret' = fnp_number
            /\ fnp_pc' = "done"
            /\ UNCHANGED <<fnp_number, fnp_i, fnp_out>>
       ELSE /\ fnp_out' = IF ~fnp_quiet THEN fnp_out + 1 ELSE fnp_out
            /\ fnp_i' = fnp_i + 1
            /\ fnp_number' = fnp_number + 1
            /\ fnp_pc' = "loop"
            /\ UNCHANGED fnp_ret

\* `while not test_function(number)` once test_function(number) has returned
\* verdict: the loop body, or `return number`
FnpWhile(verdict) ==
    /\ fnp_log' = Append(fnp_log, [cand |-> fnp_number, ok |-> verdict])
    /\ IF verdict
       THEN /\ fnp_ret' = fnp_number
            /\ fnp_pc' = "done"
            /\ UNCHANGED <<fnp_number, fnp_i, fnp_out>>
       ELSE /\ fnp_out' = IF ~fnp_quiet THEN fnp_out + 1 ELSE fnp_out
            /\ fnp_i' = fnp_i + 1
            /\ fnp_number' = fnp_number + 2
            /\ fnp_pc' = "loop"
            /\ UNCHANGED fnp_ret

\* one evaluation of the while condition with an arbitrary test function,
\* whose verdict is chosen freely
FnpTestAny ==
    /\ fnp_pc = "loop"
    /\ fnp_test = "any"
    /\ Len(fnp_log) < MaxTests
    /\ \E verdict \in BOOLEAN : FnpWhile(verdict)
    /\ UNCHANGED <<fnp_test, fnp_quiet, fnp_start>>

\* the while condition calls test_function = probably_prime
FnpTestCall ==
    /\ fnp_pc = "loop"
    /\ fnp_test = "probably_prime"
    /\ pp_pc' = "call"
    /\ pp_number' = fnp_number
    /\ pp_ret' = "none"
    /\ fnp_pc' = "wait"
    /\ UNCHANGED <<fnp_test, fnp_quiet, fnp_start, fnp_number, fnp_i, fnp_log,
                   fnp_out, fnp_ret>>
    /\ UNCHANGED <<entry, mr_pc, n, d, r, mr_i, mr_sq, mr_ret>>

\* probably_prime has returned to the while condition
FnpTestReturn ==
    /\ fnp_pc = "wait"
    /\ pp_pc = "done"
    /\ FnpWhile(pp_ret)
    /\ pp_pc' = "idle"
    /\ UNCHANGED <<fnp_test, fnp_quiet, fnp_start>>
    /\ UNCHANGED <<entry, pp_number, pp_ret, mr_pc, n, d, r, mr_i, mr_sq, mr_ret>>

FnpIdle ==
    /\ fnp_pc = "idle" /\ fnp_test = "none" /\ fnp_quiet = FALSE
    /\ fnp_start = 0 /\ fnp_number = 0 /\ fnp_i = 0
    /\ fnp_log = <<>> /\ fnp_out = 0 /\ fnp_ret = -1

-----------------------------------------------------------------------------
(* find_prime_by_morphing                                                  *)

\* str(number) for an integer number >= 0: its decimal digits, most significant
\* first, without leading zeros
RECURSIVE IntToDigits(_)
IntToDigits(m) ==
    IF m < 10 THEN <<m>> ELSE Append(IntToDigits(m \div 10), m % 10)

\* int(morphed) for a string of decimal digits
RECURSIVE DigitsToInt(_)
DigitsToInt(ds) ==
    IF Len(ds) = 0 THEN 0
    ELSE 10 * DigitsToInt(SubSeq(ds, 1, Len(ds) - 1)) + ds[Len(ds)]

\* `morphs = {morph[0]: morph[1:] for morph in args.morph}`: a later word
\* replaces an earlier one with the same first digit
BuildMorphs(ws) ==
    [key \in {ws[i][1] : i \in DOMAIN ws} |->
        LET last == CHOOSE i \in DOMAIN ws :
                        /\ ws[i][1] = key
                        /\ \A j \in DOMAIN ws : ws[j][1] = key => j <= i
        IN  Tail(ws[last])]

\* the 1-based position that Python's digits[-index] addresses in a list of
\* len digits: -0 is 0, the first element; -index counts from the end otherwise
PyNegIndex(len, index) == IF index = 0 THEN 1 ELSE len - index + 1

\* a nested call that may reach the position its parent has just morphed
NestedDepthInclusive(index) == index + 1

\* `recursion_depth=index` of the nested call
NestedDepth(index) == index

\* the values of m_ret
NotReturned == [kind |-> "none"]
ReturnedNone == [kind |-> "None"]
Returned(v) == [kind |-> "int", val |-> v]

\* the value of m_last before test_function is invoked for the first time
NoTest == [level |-> 0]

\* the innermost active call
Top == stack[Len(stack)]
TopPos == PyNegIndex(Len(Top.digits), Top.index)
TopDigit == Top.digits[TopPos]

\* the for loop over index is at an iteration it executes (no break, not over)
InLoop == Top.index < Len(Top.digits) /\ Top.index < Top.depth

\* one iteration of `for morph in morphs[digit]`: build morphed, call
\* test_function (any function: its verdict is chosen freely), then return the
\* candidate or count the trial and make the nested call (the two printer calls
\* only write output and are left out)
MorphTest ==
    /\ m_pc = "run"
    /\ InLoop
    /\ TopDigit \in DOMAIN morphs
    /\ Top.mi < Len(morphs[TopDigit])
    /\ LET morph == morphs[TopDigit][Top.mi + 1]
           morphed == [Top.digits EXCEPT ![TopPos] = morph]
           cand == DigitsToInt(morphed)
           tried == [stack EXCEPT ![Len(stack)].mi = Top.mi + 1,
                                  ![Len(stack)].prev = TopPos]
       IN  \E ok \in BOOLEAN :
              /\ m_last' = [level |-> Len(stack), index |-> Top.index, pos |-> TopPos,
                            prev |-> Top.prev, mi |-> Top.mi + 1, base |-> Top.digits,
                            morphed |-> morphed, cand |-> cand, ok |-> ok]
              /\ m_first_ok' = IF ok /\ m_first_ok = -1 THEN cand ELSE m_first_ok
              /\ m_again' = (m_again \/ m_first_ok # -1)
              /\ IF ok
                 THEN \* `return int(morphed)`; every caller then runs
                      \* `if prime: return prime`
                      /\ IF Len(stack) = 1 \/ cand # 0
                         THEN /\ m_pc' = "done"
                              /\ m_ret' = Returned(cand)
                              /\ stack' = <<>>
                         ELSE /\ stack' = SubSeq(stack, 1, Len(stack) - 1)
                              /\ UNCHANGED <<m_pc, m_ret>>
                      /\ UNCHANGED trials
                 ELSE /\ trials' = trials + 1
                      /\ stack' = Append(tried,
                             [digits |-> morphed, depth |-> NestedDepth(Top.index),
                              index |-> 0, mi |-> 0, prev |-> 0])
                      /\ UNCHANGED <<m_pc, m_ret>>
    /\ UNCHANGED <<m_start, args_morph, morphs>>

\* `except KeyError: continue`: the digit has no entry in morphs
MorphKeyError ==
    /\ m_pc = "run"
    /\ InLoop
    /\ TopDigit \notin DOMAIN morphs
    /\ stack' = [stack EXCEPT ![Len(stack)].index = Top.index + 1, ![Len(stack)].mi = 0]
    /\ UNCHANGED <<m_pc, m_start, args_morph, morphs, trials, m_last, m_first_ok,
                   m_again, m_ret>>

\* the loop over morphs[digit] is over: on to the next index
MorphNextIndex ==
    /\ m_pc = "run"
    /\ InLoop
    /\ TopDigit \in DOMAIN morphs
    /\ Top.mi >= Len(morphs[TopDigit])
    /\ stack' = [stack EXCEPT ![Len(stack)].index = Top.index + 1, ![Len(stack)].mi = 0]
    /\ UNCHANGED <<m_pc, m_start, args_morph, morphs, trials, m_last, m_first_ok,
                   m_again, m_ret>>

\* the loop over index is left by `break` or is over: the call returns None,
\* and its caller, if any, goes on after `if prime:`
MorphReturnNone ==
    /\ m_pc = "run"
    /\ ~InLoop
    /\ IF Len(stack) = 1
       THEN /\ m_pc' = "done"
            /\ m_ret' = ReturnedNone
            /\ stack' = <<>>
       ELSE /\ stack' = SubSeq(stack, 1, Len(stack) - 1)
            /\ UNCHANGED <<m_pc, m_ret>>
    /\ UNCHANGED <<m_start, args_morph, morphs, trials, m_last, m_first_ok, m_again>>

MorphIdle ==
    /\ m_pc = "idle" /\ m_start = 0 /\ args_morph = <<>>
    /\ morphs = <<>> /\ trials = 0 /\ stack = <<>>
    /\ m_last = NoTest /\ m_first_ok = -1 /\ m_again = FALSE /\ m_ret = NotReturned

-----------------------------------------------------------------------------
(* linear_map                                                              *)

RECURSIVE Gcd(_, _)
Gcd(a, b) == IF b = 0 THEN a ELSE Gcd(b, a % b)

RECURSIVE IsPowerOfTwo(_)
IsPowerOfTwo(x) == x = 1 \/ (x > 1 /\ x % 2 = 0 /\ IsPowerOfTwo(x \div 2))

\* ratio = len(outputs)/len(inputs) is a binary floating point quotient: it
\* is the exact quotient only when the reduced denominator is a power of two
RatioIsExact(outs, ins) == IsPowerOfTwo(ins \div Gcd(outs, ins))

\* a variant that rounds index*ratio to the nearest integer
RoundedProduct(index, outs, ins) == {(2 * index * outs + ins) \div (2 * ins)}

\* the values int(index*ratio) can take.  The product of index and the
\* rounded ratio is off from index*len(outputs)/len(inputs) by far less than
\* 1/len(inputs), so truncation yields the floor of the exact quotient
\* unless that quotient is an integer q > 0 and ratio is inexact: the
\* product may then fall just below q and truncate to q - 1 (as it does for
\* 44 inputs, 30 outputs and index 22, which yields 14).
TruncatedProduct(index, outs, ins) ==
    LET q == (index * outs) \div ins
    IN  IF (index * outs) % ins = 0 /\ index > 0 /\ ~RatioIsExact(outs, ins)
        THEN {q - 1, q}
        ELSE {q}

\* one iteration of `for index, value in enumerate(inputs)`; outputs[j]
\* raises IndexError when j is not a position of outputs
LinearMapIteration ==
    /\ lm_pc = "loop"
    /\ lm_index < lm_inputs
    /\ \E j \in TruncatedProduct(lm_index, lm_outputs, lm_inputs) :
          IF j < lm_outputs
          THEN /\ mapping' = Append(mapping, j)
               /\ lm_index' = lm_index + 1
               /\ lm_pc' = "loop"
          ELSE /\ lm_pc' = "IndexError"
               /\ UNCHANGED <<lm_index, mapping>>
    /\ UNCHANGED <<lm_inputs, lm_outputs>>

\* `return mapping` once the loop has run over all of inputs
LinearMapReturn ==
    /\ lm_pc = "loop"
    /\ lm_index = lm_inputs
    /\ lm_pc' = "done"
    /\ UNCHANGED <<lm_inputs, lm_outputs, lm_index, mapping>>

LinearMapIdle ==
    /\ lm_pc = "idle" /\ lm_inputs = 0 /\ lm_outputs = 0
    /\ lm_index = 0 /\ mapping = <<>>

-----------------------------------------------------------------------------
(* Specification of the oracle: probably_prime(number) for number in       *)
(* 2..MaxNumber and for the products of two primes of the default list,    *)
(* and miller_rabin(n) for odd n in 5..MaxMRN.                             *)

OracleInit ==
    /\ SkipIdle
    /\ LinearMapIdle
    /\ FnpIdle
    /\ MorphIdle
    /\ pp_ret = "none" /\ mr_ret = "none"
    /\ mr_i = 0 /\ mr_sq = 0
    /\ \/ /\ entry = "probably_prime"
          /\ pp_pc = "call"
          /\ pp_number \in (2..MaxNumber) \cup SmallPrimeProducts
          /\ mr_pc = "idle" /\ n = 0 /\ d = 0 /\ r = 0
       \/ /\ entry = "miller_rabin"
          /\ pp_pc = "idle" /\ pp_number = 0
          /\ mr_pc = "round"
          /\ n \in {m \in 5..MaxMRN : m % 2 = 1}
          /\ d = Decompose(n).d
          /\ r = Decompose(n).r

otherVars == <<skipVars, fnpVars, morphVars, lmVars>>

OracleNext ==
    \/ /\ ProbablyPrimeCall /\ UNCHANGED <<entry, otherVars>>
    \/ /\ ProbablyPrimeReturn /\ UNCHANGED <<entry, otherVars>>
    \/ /\ MillerRabinRound /\ UNCHANGED <<entry, pp_pc, pp_number, pp_ret, otherVars>>
    \/ /\ MillerRabinReturnTrue /\ UNCHANGED <<entry, pp_pc, pp_number, pp_ret, otherVars>>

OracleSpec == OracleInit /\ [][OracleNext]_vars

-----------------------------------------------------------------------------
(* Specification of skipahead: a wrapper is built for args.skip in         *)
(* 0..MaxSkip and either value of args.quiet, then called.                 *)

SkipInit ==
    /\ OracleIdle
    /\ LinearMapIdle
    /\ FnpIdle
    /\ MorphIdle
    /\ sk_pc = "init"
    /\ args_skip \in 0..MaxSkip
    /\ args_quiet \in BOOLEAN
    /\ quiet0 = args_quiet
    /\ skip = 0 /\ quiet = FALSE /\ skipped = 0
    /\ calls = 0 /\ inner_calls = 0
    /\ sk_arg = -1 /\ sk_ret = "none" /\ inner_arg = -1 /\ inner_ret = "none"
    /\ sk_out = 0

SkipNext ==
    \/ /\ SkipAhead /\ UNCHANGED <<oracleVars, fnpVars, morphVars, lmVars>>
    \/ /\ F /\ UNCHANGED <<oracleVars, fnpVars, morphVars, lmVars>>

SkipSpec == SkipInit /\ [][SkipNext]_vars

-----------------------------------------------------------------------------
(* Specification of find_next_prime: from every odd start in               *)
(* 1..MaxFnpStart with an arbitrary test function, and from every odd      *)
(* start in 5..MaxFnpStart with the default test function probably_prime.  *)

FnpInit ==
    /\ OracleIdle
    /\ LinearMapIdle
    /\ SkipIdle
    /\ MorphIdle
    /\ fnp_pc = "loop"
    /\ fnp_quiet \in BOOLEAN
    /\ \/ /\ fnp_test = "any"
          /\ fnp_start \in {m \in 1..MaxFnpStart : m % 2 = 1}
       \/ /\ fnp_test = "probably_prime"
          /\ fnp_start \in {m \in 5..MaxFnpStart : m % 2 = 1}
    /\ fnp_number = fnp_start
    /\ fnp_i = 1
    /\ fnp_log = <<>> /\ fnp_out = 0 /\ fnp_ret = -1

FnpNext ==
    \/ /\ FnpTestAny /\ UNCHANGED <<oracleVars, skipVars, morphVars, lmVars>>
    \/ /\ FnpTestCall /\ UNCHANGED <<skipVars, morphVars, lmVars>>
    \/ /\ FnpTestReturn /\ UNCHANGED <<skipVars, morphVars, lmVars>>
    \/ /\ fnp_pc = "wait" /\ ProbablyPrimeCall /\ UNCHANGED <<entry, skipVars, fnpVars, morphVars, lmVars>>
    \/ /\ fnp_pc = "wait" /\ ProbablyPrimeReturn /\ UNCHANGED <<entry, skipVars, fnpVars, morphVars, lmVars>>
    \/ /\ fnp_pc = "wait" /\ MillerRabinRound
          /\ UNCHANGED <<entry, pp_pc, pp_number, pp_ret, skipVars, fnpVars, morphVars, lmVars>>
    \/ /\ fnp_pc = "wait" /\ MillerRabinReturnTrue
          /\ UNCHANGED <<entry, pp_pc, pp_number, pp_ret, skipVars, fnpVars, morphVars, lmVars>>

FnpSpec == FnpInit /\ [][FnpNext]_vars

-----------------------------------------------------------------------------
(* Specification of find_prime_by_morphing: from every start of at most    *)
(* MaxLen digits drawn from StartDigits, with every args.morph of          *)
(* MorphArgs and an arbitrary test function.                               *)

MorphStarts ==
    {m \in 0..(10 ^ MaxLen - 1) : \A i \in DOMAIN IntToDigits(m) : IntToDigits(m)[i] \in StartDigits}

\* the state when find_prime_by_morphing makes the outermost call
\* find_prime_by_morphing_recursive(number, recursion_depth=len(str(number)))
MorphInit ==
    /\ OracleIdle
    /\ LinearMapIdle
    /\ SkipIdle
    /\ FnpIdle
    /\ m_pc = "run"
    /\ m_start \in MorphStarts
    /\ args_morph \in MorphArgs
    /\ morphs = BuildMorphs(args_morph)
    /\ trials = 0
    /\ stack = <<[digits |-> IntToDigits(m_start),
                  depth |-> Len(IntToDigits(m_start)), index |-> 0, mi |-> 0,
                  prev |-> 0]>>
    /\ m_last = NoTest /\ m_first_ok = -1 /\ m_again = FALSE /\ m_ret = NotReturned

MorphNext ==
    \/ /\ MorphTest /\ UNCHANGED <<oracleVars, skipVars, fnpVars, lmVars>>
    \/ /\ MorphKeyError /\ UNCHANGED <<oracleVars, skipVars, fnpVars, lmVars>>
    \/ /\ MorphNextIndex /\ UNCHANGED <<oracleVars, skipVars, fnpVars, lmVars>>
    \/ /\ MorphReturnNone /\ UNCHANGED <<oracleVars, skipVars, fnpVars, lmVars>>

MorphSpec == MorphInit /\ [][MorphNext]_vars

-----------------------------------------------------------------------------
(* Specification of linear_map: called with 1..MaxInputs distinct inputs   *)
(* and 1..MaxInputs outputs.                                               *)

LinearMapInit ==
    /\ OracleIdle
    /\ SkipIdle
    /\ FnpIdle
    /\ MorphIdle
    /\ lm_pc = "loop"
    /\ lm_inputs \in 1..MaxInputs
    /\ lm_outputs \in 1..MaxInputs
    /\ lm_index = 0
    /\ mapping = <<>>

LinearMapNext ==
    \/ /\ LinearMapIteration /\ UNCHANGED <<oracleVars, skipVars, fnpVars, morphVars>>
    \/ /\ LinearMapReturn /\ UNCHANGED <<oracleVars, skipVars, fnpVars, morphVars>>

LinearMapSpec == LinearMapInit /\ [][LinearMapNext]_vars

-----------------------------------------------------------------------------
(* Claims about skipahead, checked under SkipSpec.                         *)

\* C1: each of the first N = skip calls of the wrapper returns false, and the
\* wrapped test function has not been invoked by any of them.
C1_FirstNCallsReturnFalse ==
    (sk_pc = "wrapped" /\ calls >= 1 /\ calls <= skip)
        => (sk_ret = FALSE /\ inner_calls = 0 /\ inner_arg = -1)

\* a wrapper with N = MaxSkip has just answered its N-th call, for an argument
\* other than 0
C1_Witness ==
    /\ sk_pc = "wrapped" /\ skip = MaxSkip /\ calls = skip
    /\ sk_arg > 0 /\ sk_ret = FALSE /\ inner_calls = 0

\* C2: the wrapped test has been invoked max(0, calls - N) times, and every call
\* after the N-th handed its own argument to the wrapped test and returned the
\* wrapped test's result.
C2_DelegatesAfterN ==
    sk_pc = "wrapped" =>
        /\ inner_calls = Max(0, calls - skip)
        /\ calls > skip => (inner_arg = sk_arg /\ sk_ret = inner_ret)

\* a wrapper with N >= 1 has delegated at least twice, the last time returning true
C2_Witness ==
    /\ sk_pc = "wrapped" /\ skip >= 1 /\ calls >= skip + 2
    /\ inner_calls = calls - skip /\ sk_ret = TRUE /\ inner_arg = sk_arg

-----------------------------------------------------------------------------
(* Claims about the oracle, checked under OracleSpec.                      *)

\* C3: probably_prime with the default list returns true for every prime
\* p <= 997.
C3_TablePrimesAccepted ==
    (entry = "probably_prime" /\ pp_pc = "done"
        /\ pp_number <= primes[Len(primes)] /\ IsPrime(pp_number))
        => pp_ret = TRUE

\* C4: miller_rabin never gives a false negative: when it returns false for an
\* odd n >= 5, n is composite.
C4_NoFalseNegative ==
    (entry = "miller_rabin" /\ mr_pc = "done" /\ mr_ret = FALSE) => ~IsPrime(n)

\* C12: for a product of two primes of the default list, probably_prime returns
\* false from its trial-division loop: miller_rabin is never entered.
C12_ProductsRejectedByTrialDivision ==
    (entry = "probably_prime" /\ pp_number \in SmallPrimeProducts) =>
        /\ mr_pc = "idle" /\ n = 0 /\ mr_i = 0
        /\ pp_pc \in {"call", "done"}
        /\ pp_pc = "done" => pp_ret = FALSE

\* probably_prime has returned for the square of the largest prime of the list
C12_Witness ==
    /\ entry = "probably_prime" /\ pp_pc = "done"
    /\ pp_number = primes[Len(primes)] * primes[Len(primes)]
    /\ pp_ret = FALSE /\ mr_pc = "idle"

-----------------------------------------------------------------------------
(* Claims about find_next_prime, checked under FnpSpec.                    *)

\* C5: from an odd start, test is invoked on start, start+2, start+4, ... in that
\* order, once each; every invocation but the last rejected; the search returns
\* the first accepted value, which is >= start and odd.
C5_FirstAcceptedInOrder ==
    fnp_pc # "idle" =>
        /\ \A j \in 1..Len(fnp_log) : fnp_log[j].cand = fnp_start + 2 * (j - 1)
        /\ \A j \in 1..(Len(fnp_log) - 1) : ~fnp_log[j].ok
        /\ fnp_pc # "done" => \A j \in 1..Len(fnp_log) : ~fnp_log[j].ok
        /\ fnp_pc = "done" =>
              /\ Len(fnp_log) >= 1
              /\ fnp_log[Len(fnp_log)].ok
              /\ fnp_ret = fnp_log[Len(fnp_log)].cand
              /\ fnp_ret >= fnp_start
              /\ fnp_ret % 2 = 1

\* a search with an arbitrary test function returned its third candidate
C5_Witness ==
    /\ fnp_pc = "done" /\ fnp_test = "any"
    /\ Len(fnp_log) = 3 /\ fnp_ret = fnp_start + 4

\* C6: find_next_prime(9) with the default test function probably_prime
\* returns 11, whatever bases miller_rabin draws.
C6_NextPrimeAfterNine ==
    (fnp_pc = "done" /\ fnp_test = "probably_prime" /\ fnp_start = 9) => fnp_ret = 11

-----------------------------------------------------------------------------
(* Claims about find_prime_by_morphing, checked under MorphSpec.           *)

\* C7: first-found-wins: once test has accepted a candidate, test is not invoked
\* again and the whole search returns that candidate; the search returns None
\* exactly when test accepted no candidate.
C7_FirstFoundWins ==
    m_pc # "idle" =>
        /\ ~m_again
        /\ m_first_ok # -1 => (m_pc = "done" /\ m_ret = Returned(m_first_ok))
        /\ m_pc = "done" => (m_ret = ReturnedNone <=> m_first_ok = -1)

\* C8: within one call, positions are examined from the least significant digit
\* toward the most significant (a candidate of the call never changes a less
\* significant position than the call's previous candidate did), and the
\* replacements of one position are tried in the order of the morph table.
C8_LeastSignificantFirst ==
    m_last # NoTest =>
        /\ m_last.prev # 0 => m_last.prev >= m_last.pos
        /\ m_last.morphed[m_last.pos] = morphs[m_last.base[m_last.pos]][m_last.mi]
        /\ m_last.mi = 1 \/ m_last.prev = m_last.pos

\* C9: every digit string tested or returned keeps the length of the start's
\* digit string: the integer handed to test, and the integer returned, convert
\* back to the digit string they were built from.
C9_FullLengthRoundTrip ==
    /\ m_last # NoTest =>
          /\ Len(m_last.morphed) = Len(IntToDigits(m_start))
          /\ IntToDigits(m_last.cand) = m_last.morphed
    /\ m_ret.kind = "int" => Len(IntToDigits(m_ret.val)) = Len(IntToDigits(m_start))

\* C10: the candidate handed to test is the integer of a digit string that
\* differs from the start's digit string only at positions whose start digit has
\* an entry in morphs, the new digit being one of that entry's replacements; a
\* digit without an entry is never replaced, and the search never fails.
C10_OnlyTableMorphs ==
    /\ m_pc \in {"idle", "run", "done"}
    /\ m_last # NoTest =>
          LET s0 == IntToDigits(m_start) IN
          /\ Len(m_last.morphed) = Len(s0)
          /\ m_last.cand = DigitsToInt(m_last.morphed)
          /\ \A p \in 1..Len(s0) :
                m_last.morphed[p] # s0[p] =>
                    /\ s0[p] \in DOMAIN morphs
                    /\ \E i \in DOMAIN morphs[s0[p]] : morphs[s0[p]][i] = m_last.morphed[p]

\* a nested call tested a candidate that differs from the start at two positions,
\* the start holding a digit without an entry in morphs
C10_Witness ==
    /\ m_last # NoTest
    /\ m_last.level >= 2
    /\ LET s0 == IntToDigits(m_start) IN
          /\ Cardinality({p \in 1..Len(s0) : m_last.morphed[p] # s0[p]}) = 2
          /\ \E p \in 1..Len(s0) : s0[p] \notin DOMAIN morphs

\* the longest list of replacements in morphs
MaxReplacements ==
    IF DOMAIN morphs = {} THEN 0
    ELSE CHOOSE c \in {Len(morphs[key]) : key \in DOMAIN morphs} :
             \A key \in DOMAIN morphs : Len(morphs[key]) <= c

\* the number of candidates a search over the start's digits can reject:
\* (1 + MaxReplacements) ^ len(str(number)) - 1
TestBound == (1 + MaxReplacements) ^ Len(IntToDigits(m_start)) - 1

\* C11: the search terminates: every nested call has a strictly smaller depth
\* bound than its caller, the number of rejected candidates never exceeds
\* TestBound, and a search that has not returned can always take a step.
C11_Terminates ==
    m_pc # "idle" =>
        /\ \A i \in 1..(Len(stack) - 1) : stack[i + 1].depth < stack[i].depth
        /\ \A i \in 1..Len(stack) : stack[i].depth <= Len(IntToDigits(m_start))
        /\ trials <= TestBound
        /\ m_pc = "done" \/ ENABLED MorphNext

\* a search over MaxLen digits whose test function rejected every candidate
\* returned None after TestBound candidates, two replacements per digit
C11_Witness ==
    /\ m_pc = "done" /\ m_ret = ReturnedNone
    /\ Len(IntToDigits(m_start)) = MaxLen
    /\ MaxReplacements = 2
    /\ trials = TestBound

\* the search under weak fairness of its steps: the interpreter keeps running
MorphFairSpec == MorphSpec /\ WF_vars(MorphNext)

\* C11, as a liveness property of MorphFairSpec: the search eventually returns
C11_EventuallyReturns == <>(m_pc = "done")

-----------------------------------------------------------------------------
(* Claims about linear_map, checked under LinearMapSpec.                   *)

\* C13: with no more outputs than inputs, linear_map never indexes outside
\* outputs, gives every input an output (the returned mapping is total), the
\* output position never decreases as the input index grows, every output
\* position is used, by one contiguous run of inputs, and with as many
\* outputs as inputs input i gets output i.
C13_LinearMapShape ==
    (lm_pc # "idle" /\ lm_outputs <= lm_inputs) =>
        /\ lm_pc # "IndexError"
        /\ Len(mapping) = lm_index
        /\ \A i \in 1..Len(mapping) : mapping[i] \in 0..(lm_outputs - 1)
        /\ \A i \in 1..(Len(mapping) - 1) : mapping[i] <= mapping[i + 1]
        /\ \A i \in 1..Len(mapping) : \A j \in i..Len(mapping) :
              mapping[i] = mapping[j] => \A h \in i..j : mapping[h] = mapping[i]
        /\ lm_inputs = lm_outputs => \A i \in 1..Len(mapping) : mapping[i] = i - 1
        /\ lm_pc = "done" =>
              /\ Len(mapping) = lm_inputs
              /\ {mapping[i] : i \in 1..Len(mapping)} = 0..(lm_outputs - 1)

C13_Witness ==
    /\ lm_pc = "done"
    /\ lm_inputs = MaxInputs /\ lm_outputs = 3
    /\ Len(mapping) = MaxInputs
    /\ {mapping[i] : i \in 1..Len(mapping)} = {0, 1, 2}

-----------------------------------------------------------------------------
(* Further claims about find_prime_by_morphing, checked under MorphSpec.   *)

\* C14: every nested call was made for a rejected candidate of its caller:
\* its base is the caller's base morphed at the caller's current index and
\* its depth bound is that index, so the index it is at never exceeds the
\* bound and every index it tests is strictly smaller; along the chain of
\* active calls the morphed indices strictly decrease and the morphed
\* positions are pairwise different; and the base of every active call is
\* the start string changed only where its callers have morphed it, whatever
\* nested calls have returned since.
C14_ShrinkingWindow ==
    m_pc = "run" =>
        /\ stack[1].digits = IntToDigits(m_start)
        /\ \A i \in 1..Len(stack) : stack[i].index <= stack[i].depth
        /\ \A i \in 1..(Len(stack) - 1) :
              LET parent == stack[i]
                  child == stack[i + 1]
              IN  /\ parent.index < parent.depth
                  /\ parent.mi >= 1
                  /\ parent.prev = PyNegIndex(Len(parent.digits), parent.index)
                  /\ child.depth = parent.index
                  /\ child.index <= parent.index
                  /\ child.digits =
                        [parent.digits EXCEPT ![parent.prev] =
                            morphs[parent.digits[parent.prev]][parent.mi]]
        /\ \A i \in 1..(Len(stack) - 1) : \A j \in (i + 1)..(Len(stack) - 1) :
              /\ stack[j].index < stack[i].index
              /\ stack[j].prev # stack[i].prev
        /\ \A i \in 1..Len(stack) : \A pos \in 1..Len(stack[i].digits) :
              stack[i].digits[pos] # IntToDigits(m_start)[pos] =>
                  \E j \in 1..(i - 1) : stack[j].prev = pos
        /\ (m_last.level # 0 /\ m_last.level <= Len(stack)) =>
              /\ m_last.base = stack[m_last.level].digits
              /\ m_last.index < stack[m_last.level].depth

\* the call nested three deep, with depth bound 1, has tested a candidate at
\* index 0 after an earlier nested call of its caller had returned
C14_Witness ==
    /\ m_pc = "run"
    /\ Len(stack) = 3
    /\ stack[2].mi = 2
    /\ stack[3].index = 0 /\ stack[3].depth = 1
    /\ m_last.level = 3

\* C15: in a morphing search started from an odd number of two or more
\* digits, every integer handed to test_function is odd and at least 5.
C15_CandidatesOddAtLeastFive ==
    (/\ m_last.level # 0
     /\ m_start % 2 = 1
     /\ Len(IntToDigits(m_start)) >= 2) =>
        /\ m_last.cand % 2 = 1
        /\ m_last.cand >= 5

-----------------------------------------------------------------------------
(* A further claim about find_next_prime, checked under FnpSpec.           *)

\* C15, for the sequential search: started from an odd number of at least 5,
\* every integer handed to test_function is odd and at least 5.
C15_SequentialCandidates ==
    (fnp_pc # "idle" /\ fnp_start % 2 = 1 /\ fnp_start >= 5) =>
        \A j \in 1..Len(fnp_log) : fnp_log[j].cand % 2 = 1 /\ fnp_log[j].cand >= 5

-----------------------------------------------------------------------------
(* A further claim about miller_rabin, checked under OracleSpec.           *)

\* C16: for every odd n >= 5, once the decomposition loop of miller_rabin is
\* over, d is odd and d * 2^r = n - 1, and a round performs at most r - 1
\* squarings.
C16_Decomposition ==
    (mr_pc # "idle" /\ n % 2 = 1 /\ n >= 5) =>
        /\ d % 2 = 1
        /\ d * 2 ^ r = n - 1
        /\ mr_sq <= r - 1

-----------------------------------------------------------------------------
(* A further claim about skipahead, checked under SkipSpec.                *)

\* C17: once skipahead has been applied, args.quiet is True while the
\* wrapper is skipping (fewer than args.skip calls made), and equals the
\* value it had before skipahead was applied while the wrapper is active
\* (args.skip calls made; from the start for args.skip = 0).
C17_QuietSuppressedWhileSkipping ==
    sk_pc = "wrapped" =>
        /\ skipped < skip => args_quiet = TRUE
        /\ skipped >= skip => args_quiet = quiet0

====
